---------------------------- MODULE Spec2Model ----------------------------
(***************************************************************************)
(* Model of scripts/fetch-nyt-word.py: one run of main(), which calls      *)
(* fetch_nyt_wordle() (connect -> navigate -> reveal -> extract) and then  *)
(* add_word_to_database() (hand off to `node add-word.mjs`).               *)
(*                                                                         *)
(* Text is modelled as a sequence of characters.  An ASCII character is    *)
(* the one-character string holding it; a non-ASCII character is the       *)
(* string naming its code point ("U+212A").                                *)
(***************************************************************************)
EXTENDS Integers, Sequences, FiniteSets, TLC

(***************************************************************************)
(* Characters, as Python's str and re (with re.IGNORECASE) treat them.     *)
(***************************************************************************)
LowerAZ == <<"a","b","c","d","e","f","g","h","i","j","k","l","m",
             "n","o","p","q","r","s","t","u","v","w","x","y","z">>

UpperAZ == <<"A","B","C","D","E","F","G","H","I","J","K","L","M",
             "N","O","P","Q","R","S","T","U","V","W","X","Y","Z">>

Range(s) == {s[i] : i \in DOMAIN s}

AsciiLower == Range(LowerAZ)

AsciiUpper == Range(UpperAZ)

AsciiDigit == {"0","1","2","3","4","5","6","7","8","9"}

\* U+017F LATIN SMALL LETTER LONG S, U+212A KELVIN SIGN,
\* U+0130 LATIN CAPITAL LETTER I WITH DOT ABOVE, U+0131 LATIN SMALL LETTER DOTLESS I
LongS == "U+017F"

KelvinSign == "U+212A"

CapitalDottedI == "U+0130"

DotlessI == "U+0131"

\* U+00A0 NO-BREAK SPACE (str.isspace is true of it), U+0660 ARABIC-INDIC DIGIT ZERO
NoBreakSpace == "U+00A0"

ArabicZero == "U+0660"

\* U+2713 CHECK MARK, as a command's output may hold
CheckMark == "U+2713"

\* U+00E9 LATIN SMALL LETTER E WITH ACUTE, as a path or a localized system message may hold
SmallEAcute == "U+00E9"

NonAscii == {LongS, KelvinSign, CapitalDottedI, DotlessI, NoBreakSpace, ArabicZero, CheckMark,
             SmallEAcute}

\* sys.stdout's encoding: one that encodes every character, or one (errors=strict)
\* that encodes none of the non-ASCII characters the model prints
Encodings == {"utf-8", "ascii"}

\* print(s) raises UnicodeEncodeError unless every character of s can be encoded
Encodable(enc, s) == enc = "utf-8" \/ \A i \in DOMAIN s : s[i] \notin NonAscii

\* str(e) of a UnicodeEncodeError: "'ascii' codec can't encode character '\u212a' ...",
\* the character escaped, so that every encoding can print it
UnicodeErrorText == <<"c","o","d","e","c"," ","c","a","n","'","t"," ","e","n","c","o","d","e">>

\* str(e) of the other exceptions the run can meet (a Playwright error, an OSError):
\* ASCII only, or holding a character of a path or of a localized system message
ExceptionTexts == { <<"T","i","m","e","o","u","t">>,
                    <<"A","c","c",SmallEAcute,"s"," ","r","e","f","u","s",SmallEAcute>> }

\* The index of letter c in the alphabet s (0 when absent).
IndexIn(s, c) == IF c \in Range(s) THEN CHOOSE i \in DOMAIN s : s[i] = c ELSE 0

\* The characters a literal pattern character c matches under re.IGNORECASE:
\* both cases of a letter, and the non-ASCII characters sre holds equivalent.
CaseClass(c) ==
    LET i == IF c \in AsciiLower THEN IndexIn(LowerAZ, c) ELSE IndexIn(UpperAZ, c)
        both == IF i = 0 THEN {c} ELSE {LowerAZ[i], UpperAZ[i]}
    IN  both \cup (IF "s" \in both THEN {LongS} ELSE {})
             \cup (IF "k" \in both THEN {KelvinSign} ELSE {})
             \cup (IF "i" \in both THEN {CapitalDottedI, DotlessI} ELSE {})

\* [A-Z] under re.IGNORECASE
ClassAZ == UNION {CaseClass(c) : c \in AsciiUpper}

\* \s on str patterns
ClassSpace == {" ", "\t", "\n", "\r", NoBreakSpace}

\* [:\s]
ClassColonSpace == {":"} \cup ClassSpace

\* \d on str patterns
ClassDigit == AsciiDigit \cup {ArabicZero}

\* \w on str patterns: alphanumerics and the underscore
ClassWord == ClassAZ \cup ClassDigit \cup {"_"}

\* Every character the model's page texts are written in.
Char == ClassWord \cup ClassSpace \cup {":", "'", ".", ",", "!", "-", "#"}

\* . (no DOTALL): anything but a newline
ClassDot == Char \ {"\n"}

\* str.upper() of one character
CharUpper(c) ==
    IF c \in AsciiLower THEN UpperAZ[IndexIn(LowerAZ, c)]
    ELSE IF c = LongS THEN "S"
    ELSE IF c = DotlessI THEN "I"
    ELSE c

\* str.upper()
StrUpper(s) == [i \in DOMAIN s |-> CharUpper(s[i])]

(***************************************************************************)
(* Regular expressions: a pattern is a sequence of items, each a character *)
(* class repeated min..max times (greedy), or the \b assertion.            *)
(***************************************************************************)
One(cls) == [bnd |-> FALSE, cls |-> cls, min |-> 1, max |-> 1, unb |-> FALSE, grp |-> FALSE]

Opt(cls) == [bnd |-> FALSE, cls |-> cls, min |-> 0, max |-> 1, unb |-> FALSE, grp |-> FALSE]

Plus(cls) == [bnd |-> FALSE, cls |-> cls, min |-> 1, max |-> 1, unb |-> TRUE, grp |-> FALSE]

\* ([A-Z]{5})
Group5 == [bnd |-> FALSE, cls |-> ClassAZ, min |-> 5, max |-> 5, unb |-> FALSE, grp |-> TRUE]

\* \b
Boundary == [bnd |-> TRUE, cls |-> {}, min |-> 0, max |-> 0, unb |-> FALSE, grp |-> FALSE]

\* a literal run of pattern characters
Lit(s) == [i \in DOMAIN s |-> One(CaseClass(s[i]))]

Sp == <<Plus(ClassSpace)>>

patterns == <<
    Lit(<<"T","o","d","a","y">>) \o <<Opt(ClassDot), Opt(CaseClass("s"))>> \o Sp
        \o Lit(<<"w","o","r","d">>) \o Sp \o Lit(<<"i","s">>) \o Sp \o <<Group5>>,
    Lit(<<"T","o","d","a","y">>) \o <<Opt(ClassDot), Opt(CaseClass("s"))>> \o Sp
        \o Lit(<<"W","o","r","d">>) \o <<Plus(ClassColonSpace), Group5>>,
    Lit(<<"a","n","s","w","e","r">>) \o Sp \o Lit(<<"t","o">>) \o Sp
        \o Lit(<<"W","o","r","d","l","e">>) \o Sp \o <<Plus(ClassDigit)>> \o Sp
        \o Lit(<<"i","s">>) \o Sp \o <<Group5>>,
    Lit(<<"a","n","s","w","e","r">>) \o Sp \o Lit(<<"i","s">>) \o Sp \o <<Group5>>,
    Lit(<<"s","o","l","u","t","i","o","n">>) \o Sp \o Lit(<<"i","s">>) \o Sp \o <<Group5>>,
    Lit(<<"W","o","r","d","l","e">>) \o Sp \o <<Plus(ClassDigit)>> \o Sp
        \o Lit(<<"a","n","s","w","e","r">>) \o <<Plus(ClassColonSpace), Group5>>,
    <<Boundary, Group5>> \o Sp \o Lit(<<"i","s">>) \o Sp \o Lit(<<"t","h","e">>) \o Sp
        \o Lit(<<"a","n","s","w","e","r">>),
    Lit(<<"T","h","e"," ","w","o","r","d"," ","i","s">>) \o <<Plus(ClassColonSpace), Group5>>
>>

\* How many characters of text from position pos on lie in cls, up to cap.
RECURSIVE RunLen(_, _, _, _)
RunLen(cls, text, pos, cap) ==
    IF cap = 0 \/ pos > Len(text) \/ text[pos] \notin cls THEN 0
    ELSE 1 + RunLen(cls, text, pos + 1, cap - 1)

IsWordAt(text, pos) == pos >= 1 /\ pos <= Len(text) /\ text[pos] \in ClassWord

NoMatch == [ok |-> FALSE, gs |-> 0]

\* sre's backtracking matcher: items k.. of pat against text at pos; a greedy
\* item takes the longest run that lets the rest match.  gs is where group 1 starts.
RECURSIVE MatchFrom(_, _, _, _)
MatchFrom(pat, text, k, pos) ==
    IF k > Len(pat) THEN [ok |-> TRUE, gs |-> 0]
    ELSE LET it == pat[k] IN
      IF it.bnd
      THEN IF IsWordAt(text, pos - 1) # IsWordAt(text, pos)
           THEN MatchFrom(pat, text, k + 1, pos) ELSE NoMatch
      ELSE LET run == RunLen(it.cls, text, pos, IF it.unb THEN Len(text) ELSE it.max)
               rs  == [c \in it.min .. run |-> MatchFrom(pat, text, k + 1, pos + c)]
               good == {c \in DOMAIN rs : rs[c].ok}
           IN  IF good = {} THEN NoMatch
               ELSE IF it.grp THEN [ok |-> TRUE, gs |-> pos]
               ELSE rs[CHOOSE m \in good : \A o \in good : o <= m]

\* re.search(pattern, text, re.IGNORECASE): the match at the leftmost start.
ReSearch(pat, text) ==
    LET ms == [s \in 1 .. Len(text) |-> MatchFrom(pat, text, 1, s)]
        starts == {s \in DOMAIN ms : ms[s].ok}
    IN  IF starts = {} THEN NoMatch
        ELSE ms[CHOOSE s \in starts : \A o \in starts : s <= o]

\* match.group(1)
Group1(text, m) == SubSeq(text, m.gs, m.gs + 4)

\* Python's None where a word is expected
None == <<>>

\* ExtractWord without the loop's `break`: the last pattern that matches wins
ExtractWord_NoBreak(page_text) ==
    LET ms  == [i \in DOMAIN patterns |-> ReSearch(patterns[i], page_text)]
        hit == {i \in DOMAIN ms : ms[i].ok}
    IN  IF hit = {} THEN None
        ELSE StrUpper(Group1(page_text, ms[CHOOSE j \in hit : \A o \in hit : j >= o]))

\* The loop over patterns: the first pattern that matches gives the word.
ExtractWord(page_text) ==
    LET ms  == [i \in DOMAIN patterns |-> ReSearch(patterns[i], page_text)]
        hit == {i \in DOMAIN ms : ms[i].ok}
    IN  IF hit = {} THEN None
        ELSE StrUpper(Group1(page_text, ms[CHOOSE j \in hit : \A o \in hit : j <= o]))

(***************************************************************************)
(* Dates.  An instant of datetime.now() is a whole number of ticks, with   *)
(* TicksPerDay ticks in a day; day 0 is 1970-01-01.                        *)
(***************************************************************************)
TicksPerDay == 2

\* How far the clock may move between the two calls of datetime.now(), in ticks.
MaxClockAdvance == 1

\* The proleptic Gregorian calendar of datetime: the day number of y-m-d ...
DaysFromCivil(y, m, d) ==
    LET yy  == IF m <= 2 THEN y - 1 ELSE y
        era == yy \div 400
        yoe == yy - era * 400
        mp  == IF m > 2 THEN m - 3 ELSE m + 9
        doy == (153 * mp + 2) \div 5 + d - 1
        doe == yoe * 365 + yoe \div 4 - yoe \div 100 + doy
    IN  era * 146097 + doe - 719468

\* ... and the year, month and day of a day number.
CivilFromDays(z) ==
    LET zz  == z + 719468
        era == zz \div 146097
        doe == zz - era * 146097
        yoe == (doe - doe \div 1460 + doe \div 36524 - doe \div 146096) \div 365
        doy == doe - (365 * yoe + yoe \div 4 - yoe \div 100)
        mp  == (5 * doy + 2) \div 153
        d   == doy - (153 * mp + 2) \div 5 + 1
        m   == IF mp < 10 THEN mp + 3 ELSE mp - 9
        y   == yoe + era * 400 + (IF m <= 2 THEN 1 ELSE 0)
    IN  [year |-> y, month |-> m, day |-> d]

\* datetime(2021, 6, 19), as an instant
WORDLE_START_DATE == DaysFromCivil(2021, 6, 19) * TicksPerDay

\* the date part of an instant
DayOf(t) == t \div TicksPerDay

\* timedelta(days=1)
OneDay == TicksPerDay

\* (a - b).days
DeltaDays(a, b) == (a - b) \div TicksPerDay

\* str(n).zfill(2)
ZFill2(n) == IF Len(ToString(n)) < 2 THEN "0" \o ToString(n) ELSE ToString(n)

\* t.strftime('%m/%d/%Y')
StrfTime(t) ==
    LET c == CivilFromDays(DayOf(t))
    IN  ZFill2(c.month) \o "/" \o ZFill2(c.day) \o "/" \o ToString(c.year)

\* the review URL for the article of instant today and game number game
ReviewUrl(today_, game) ==
    LET c == CivilFromDays(DayOf(today_))
    IN  "https://www.nytimes.com/" \o ToString(c.year) \o "/" \o ZFill2(c.month)
          \o "/" \o ZFill2(c.day) \o "/crosswords/wordle-review-" \o ToString(game)
          \o ".html"

\* The days on which the modelled runs start: the first game day, a month end,
\* a year end, the eve of a leap day, a leap day.
StartDays == { DaysFromCivil(2021, 6, 19), DaysFromCivil(2023, 9, 30),
               DaysFromCivil(2023, 12, 31), DaysFromCivil(2024, 2, 28),
               DaysFromCivil(2024, 2, 29) }

ClockStarts == {d * TicksPerDay + k : d \in StartDays, k \in 0 .. TicksPerDay - 1}

(***************************************************************************)
(* What the collaborators may supply: the page's text, and the exit        *)
(* status and output of `node add-word.mjs`.                               *)
(***************************************************************************)
TextToday == <<"T","o","d","a","y","'","s"," ","w","o","r","d"," ","i","s"," ",
               "F","R","U","I","T">>

TextLower == <<"t","h","e"," ","a","n","s","w","e","r"," ","i","s"," ",
               "c","r","a","n","e",".">>

TextLongTail == <<"s","o","l","u","t","i","o","n"," ","i","s","\n","F","R","U","I","T","Y">>

TextKelvin == <<"T","h","e"," ","w","o","r","d"," ","i","s",":"," ",
                KelvinSign,"i","o","s","k">>

TextNoAnswer == <<"W","o","r","d","l","e"," ","7"," ","h","i","n","t","s">>

\* 'Wordle<U+00A0>7 hints'
TextNoAnswerNbsp == <<"W","o","r","d","l","e",NoBreakSpace,"7"," ","h","i","n","t","s">>

PageTexts == {TextToday, TextLower, TextLongTail, TextKelvin, TextNoAnswer, TextNoAnswerNbsp,
              <<>>}

AlreadyExists == <<"a","l","r","e","a","d","y"," ","e","x","i","s","t","s">>

NoChangesMade == <<"N","o"," ","c","h","a","n","g","e","s"," ","m","a","d","e">>

Stdouts == { <<>>, <<CheckMark," ","A","d","d","e","d">>, <<"W","o","r","d"," ">> \o AlreadyExists,
             <<"a","l","r","e","a","d","y"," ">> }

Stderrs == { <<>>, NoChangesMade \o <<".">>, <<"e","x","i","s","t","s">> }

ReturnCodes == {0, 1}

\* needle in hay, on str
Contains(hay, needle) ==
    \E i \in 1 .. Len(hay) - Len(needle) + 1 :
        SubSeq(hay, i, i + Len(needle) - 1) = needle

reveal_selectors == << "text=\"Click to reveal\"",
                       "button:has-text(\"Click to reveal\")",
                       "button:has-text(\"reveal\")",
                       "[aria-label*=\"reveal\"]",
                       ".reveal-button",
                       "button.spoiler-reveal" >>

(***************************************************************************)
(* The state of one run.                                                   *)
(***************************************************************************)
VARIABLES
    encoding,     \* sys.stdout.encoding, fixed for the run
    exc,          \* str(e) of the exception last raised into a handler that prints it
    pc,           \* where the run is ("done": main returned, "crashed": it raised)
    clock,        \* the wall clock, in ticks
    tomorrow,     \* fetch_nyt_wordle's locals ...
    today,
    game_number,
    url,
    browser,      \* "none", "connected" or "closed": the CDP connection
    page,         \* "none", "open", "closed" or "killed": the tab of context.new_page()
    sel,          \* the index in reveal_selectors the loop is at
    clicked,
    tried,        \* the selectors passed to wait_for_selector, in order
    clicks,       \* how many element.click() calls have succeeded
    page_text,
    word,
    date_str,
    debug_saved,  \* whether debug-page.html has been written
    returned,     \* "pending", "None" or "record": what fetch_nyt_wordle returned
    word_data,    \* the record returned, when returned = "record"
    added,        \* what add_word_to_database returned, once it has
    proc,         \* the completed process of subprocess.run, once there is one
    cmds,         \* the argument lists handed to subprocess.run, in order
    failed,       \* the step that failed, "" while none has
    console,      \* the result lines printed, in order
    log           \* the calls made on the collaborators, in order

vars == << encoding, exc, pc, clock, tomorrow, today, game_number, url, browser, page, sel, clicked,
           tried, clicks,
           page_text, word, date_str, debug_saved, returned, word_data, added, proc, cmds,
           failed, console, log >>

dates == << clock, tomorrow, today, game_number, url >>

reveal == << sel, clicked, tried, clicks >>

extraction == << page_text, word, date_str, debug_saved >>

handoff == << added, proc, cmds >>

NoData == [word |-> None, game_number |-> 0, date |-> ""]

NoProc == [launched |-> FALSE, returncode |-> 0, stdout |-> <<>>, stderr |-> <<>>]

Init ==
    /\ encoding \in Encodings /\ exc = <<>>
    /\ pc = "now_tomorrow"
    /\ clock \in ClockStarts
    /\ tomorrow = 0 /\ today = 0 /\ game_number = 0 /\ url = ""
    /\ browser = "none" /\ page = "none"
    /\ sel = 1 /\ clicked = FALSE /\ tried = <<>> /\ clicks = 0
    /\ page_text = <<>> /\ word = None /\ date_str = "" /\ debug_saved = FALSE
    /\ returned = "pending" /\ word_data = NoData
    /\ added = "pending" /\ proc = NoProc /\ cmds = <<>>
    /\ failed = ""
    /\ console = <<>> /\ log = <<>>

Call(e) == log' = Append(log, e)

Say(line) == console' = Append(console, line)

(***************************************************************************)
(* fetch_nyt_wordle                                                        *)
(***************************************************************************)
\* tomorrow = datetime.now() + timedelta(days=1); game_number = (tomorrow - START).days
ReadTomorrow ==
    /\ pc = "now_tomorrow"
    /\ tomorrow' = clock + OneDay
    /\ game_number' = DeltaDays(tomorrow', WORDLE_START_DATE)
    /\ pc' = "now_today"
    /\ UNCHANGED << encoding, exc, failed, clock, today, url, browser, page, reveal, extraction, returned,
                    word_data, handoff, console, log >>

\* today = datetime.now(), read after the clock has moved on by adv; url = f"..."
ReadToday ==
    /\ pc = "now_today"
    /\ \E adv \in 0 .. MaxClockAdvance :
         /\ clock' = clock + adv
         /\ today' = clock'
         /\ url' = ReviewUrl(today', game_number)
    /\ pc' = "connect"
    /\ UNCHANGED << encoding, exc, failed, tomorrow, game_number, browser, page, reveal, extraction, returned,
                    word_data, handoff, console, log >>

\* browser = await p.chromium.connect_over_cdp(...)
ConnectOk ==
    /\ pc = "connect"
    /\ browser' = "connected"
    /\ Call("connect")
    /\ pc' = "contexts"
    /\ UNCHANGED << encoding, exc, failed, dates, page, reveal, extraction, returned, word_data, handoff, console >>

\* except Exception: ... return None
ConnectFails ==
    /\ pc = "connect"
    /\ Call("connect")
    /\ Say("[ERROR] Could not connect to browser")
    /\ returned' = "None"
    /\ pc' = "main_check"
    /\ failed' = "connect"
    /\ UNCHANGED << encoding, exc, dates, browser, page, reveal, extraction, word_data, handoff >>

\* contexts = browser.contexts; if contexts: context = contexts[0]
ContextFound ==
    /\ pc = "contexts"
    /\ pc' = "new_page"
    /\ UNCHANGED << encoding, exc, failed, dates, browser, page, reveal, extraction, returned, word_data,
                    handoff, console, log >>

\* else: print("[ERROR] No browser context found"), up to the await of l.70
NoContext ==
    /\ pc = "contexts"
    /\ Say("[ERROR] No browser context found")
    /\ failed' = "no_context"
    /\ pc' = "no_context_close"
    /\ UNCHANGED << encoding, exc, dates, browser, page, reveal, extraction, returned,
                    word_data, handoff, log >>

\* await browser.close(); return None
NoContextCloseOk ==
    /\ pc = "no_context_close"
    /\ Call("browser.close")
    /\ browser' = "closed"
    /\ returned' = "None"
    /\ pc' = "main_check"
    /\ UNCHANGED << encoding, exc, failed, dates, page, reveal, extraction, word_data,
                    handoff, console >>

\* await browser.close() raises there, outside any try: main ends with the exception
NoContextCloseRaises ==
    /\ pc = "no_context_close"
    /\ Call("browser.close")
    /\ pc' = "crashed"
    /\ UNCHANGED << encoding, exc, failed, dates, browser, page, reveal, extraction, returned,
                    word_data, handoff, console >>

\* page = await context.new_page()
NewPage ==
    /\ pc = "new_page"
    /\ page' = "open"
    /\ Call("new_page")
    /\ pc' = "goto"
    /\ UNCHANGED << encoding, exc, failed, dates, browser, reveal, extraction, returned, word_data, handoff, console >>

\* await context.new_page() raises, outside any try: main ends with the exception
NewPageRaises ==
    /\ pc = "new_page"
    /\ Call("new_page")
    /\ failed' = "new_page"
    /\ pc' = "crashed"
    /\ UNCHANGED << encoding, exc, dates, browser, page, reveal, extraction, returned, word_data,
                    handoff, console >>

\* an await of the try block of lines 76-200 raises an exception whose text is one
\* of ExceptionTexts: control goes to the handler
Raises(at, call) ==
    /\ pc = at
    /\ Call(call)
    /\ exc' \in ExceptionTexts
    /\ pc' = "handler"
    /\ failed' = at
    /\ UNCHANGED << encoding, dates, browser, page, reveal, extraction, returned, word_data,
                    handoff, console >>

\* await page.goto(url, ...)
GotoOk ==
    /\ pc = "goto"
    /\ Call("goto")
    /\ pc' = "wait_load"
    /\ UNCHANGED << encoding, exc, failed, dates, browser, page, reveal, extraction, returned, word_data,
                    handoff, console >>

GotoRaises == Raises("goto", "goto")

\* await page.wait_for_timeout(2000)
WaitLoadOk ==
    /\ pc = "wait_load"
    /\ pc' = "selector"
    /\ UNCHANGED << encoding, exc, failed, dates, browser, page, reveal, extraction, returned, word_data,
                    handoff, console, log >>

WaitLoadRaises == Raises("wait_load", "wait_for_timeout")

\* element = await page.wait_for_selector(selector, timeout=3000) raises:
\* except: continue
SelectorRaises ==
    /\ pc = "selector" /\ sel <= Len(reveal_selectors)
    /\ tried' = Append(tried, reveal_selectors[sel])
    /\ sel' = sel + 1
    /\ UNCHANGED << encoding, exc, failed, pc, dates, browser, page, clicked, clicks, extraction, returned,
                    word_data, handoff, console, log >>

\* ... returns nothing: `if element` fails and the loop goes on
SelectorNone ==
    /\ pc = "selector" /\ sel <= Len(reveal_selectors)
    /\ tried' = Append(tried, reveal_selectors[sel])
    /\ sel' = sel + 1
    /\ UNCHANGED << encoding, exc, failed, pc, dates, browser, page, clicked, clicks, extraction, returned,
                    word_data, handoff, console, log >>

\* ... returns an element
SelectorFound ==
    /\ pc = "selector" /\ sel <= Len(reveal_selectors)
    /\ tried' = Append(tried, reveal_selectors[sel])
    /\ pc' = "click"
    /\ UNCHANGED << encoding, exc, failed, dates, browser, page, sel, clicked, clicks, extraction, returned,
                    word_data, handoff, console, log >>

\* await element.click(); clicked = True
ClickOk ==
    /\ pc = "click"
    /\ clicks' = clicks + 1
    /\ clicked' = TRUE
    /\ pc' = "reveal_wait"
    /\ UNCHANGED << encoding, exc, failed, dates, browser, page, sel, tried, extraction, returned, word_data,
                    handoff, console, log >>

\* await element.click() raises: except: continue
ClickRaises ==
    /\ pc = "click"
    /\ sel' = sel + 1
    /\ pc' = "selector"
    /\ UNCHANGED << encoding, exc, failed, dates, browser, page, clicked, tried, clicks, extraction, returned,
                    word_data, handoff, console, log >>

\* await page.wait_for_timeout(1000); break
RevealWaitOk ==
    /\ pc = "reveal_wait"
    /\ pc' = "text_content"
    /\ UNCHANGED << encoding, exc, failed, dates, browser, page, reveal, extraction, returned, word_data,
                    handoff, console, log >>

\* await page.wait_for_timeout(1000) raises inside the loop's try: except: continue
RevealWaitRaises ==
    /\ pc = "reveal_wait"
    /\ sel' = sel + 1
    /\ pc' = "selector"
    /\ UNCHANGED << encoding, exc, failed, dates, browser, page, clicked, tried, clicks, extraction, returned,
                    word_data, handoff, console, log >>

\* the for loop runs out of selectors
SelectorsExhausted ==
    /\ pc = "selector" /\ sel > Len(reveal_selectors)
    /\ pc' = "text_content"
    /\ UNCHANGED << encoding, exc, failed, dates, browser, page, reveal, extraction, returned, word_data,
                    handoff, console, log >>

\* page_text = await page.text_content('body')
TextContentOk ==
    /\ pc = "text_content"
    /\ \E t \in PageTexts : page_text' = t
    /\ Call("text_content")
    /\ pc' = "extract"
    /\ UNCHANGED << encoding, exc, failed, dates, browser, page, reveal, word, date_str, debug_saved,
                    returned, word_data,
                    handoff, console >>

\* ... raises, or returns None and re.search raises TypeError
TextContentRaises == Raises("text_content", "text_content")

\* ExtractNoWord with the run going on to close the page, as if the word were found
ExtractNoWord_NoReturn ==
    /\ pc = "extract"
    /\ word' = ExtractWord(page_text)
    /\ word' = None
    /\ Say("[ERROR] Could not find the Wordle answer on the page.")
    /\ failed' = "extract"
    /\ date_str' = StrfTime(tomorrow)
    /\ pc' = "close_page"
    /\ UNCHANGED << encoding, exc, dates, browser, page, reveal, page_text, debug_saved,
                    returned, word_data, handoff, log >>

\* for pattern in patterns: ... ; if not word: print("[ERROR] ...")
ExtractNoWord ==
    /\ pc = "extract"
    /\ word' = ExtractWord(page_text)
    /\ word' = None
    /\ Say("[ERROR] Could not find the Wordle answer on the page.")
    /\ failed' = "extract"
    /\ pc' = "debug_save"
    /\ UNCHANGED << encoding, exc, dates, browser, page, reveal, page_text, date_str,
                    debug_saved, returned, word_data, handoff, log >>

\* debug_path = os.path.join(os.path.dirname(__file__), 'debug-page.html'): the
\* script's directory has an ASCII name, or one with a character outside ASCII
DebugPaths == { <<"s","c","r","i","p","t","s","/","d","e","b","u","g","-","p","a","g","e",
                  ".","h","t","m","l">>,
                <<"J","o","s",SmallEAcute,"/","d","e","b","u","g","-","p","a","g","e",
                  ".","h","t","m","l">> }

\* page_text[:1000] if page_text else "No text found"
DebugText(t) ==
    IF t = <<>> THEN <<"N","o"," ","t","e","x","t"," ","f","o","u","n","d">>
    ELSE SubSeq(t, 1, IF Len(t) < 1000 THEN Len(t) ELSE 1000)

\* try: html = await page.content(); the file debug-page.html is written;
\* print(f"Page saved to: {debug_path}"); print(page_text[:1000] if page_text else
\* "No text found"): every print succeeds; return None
DebugSaved ==
    /\ pc = "debug_save"
    /\ \E debug_path \in DebugPaths :
         Encodable(encoding, debug_path \o DebugText(page_text))
    /\ Call("content")
    /\ debug_saved' = TRUE
    /\ returned' = "None"
    /\ pc' = "main_check"
    /\ UNCHANGED << encoding, exc, failed, dates, browser, page, reveal, page_text, word,
                    date_str, word_data, handoff, console >>

\* ... the file is written and then print(f"Page saved to: {debug_path}") (a path
\* stdout cannot encode) or print(page_text[:1000]) raises UnicodeEncodeError:
\* except Exception as e: print(f"Could not save debug info: {e}"), which every
\* encoding can print; return None
DebugSavedPrintRaises ==
    /\ pc = "debug_save"
    /\ \E debug_path \in DebugPaths :
         ~Encodable(encoding, debug_path \o DebugText(page_text))
    /\ Encodable(encoding, UnicodeErrorText)
    /\ Call("content")
    /\ debug_saved' = TRUE
    /\ Say("Could not save debug info")
    /\ returned' = "None"
    /\ pc' = "main_check"
    /\ UNCHANGED << encoding, exc, failed, dates, browser, page, reveal, page_text, word,
                    date_str, word_data, handoff >>

\* await page.content() raises: except Exception as e:
\* print(f"Could not save debug info: {e}"); return None
DebugContentRaises ==
    /\ pc = "debug_save"
    /\ \E e \in ExceptionTexts : Encodable(encoding, e)
    /\ Call("content")
    /\ Say("Could not save debug info")
    /\ returned' = "None"
    /\ pc' = "main_check"
    /\ UNCHANGED << encoding, exc, failed, dates, browser, page, reveal, extraction,
                    word_data, handoff >>

\* page.content() returns and open() or f.write() raises: the same except branch
DebugWriteRaises ==
    /\ pc = "debug_save"
    /\ \E e \in ExceptionTexts : Encodable(encoding, e)
    /\ Call("content")
    /\ Say("Could not save debug info")
    /\ returned' = "None"
    /\ pc' = "main_check"
    /\ UNCHANGED << encoding, exc, failed, dates, browser, page, reveal, extraction,
                    word_data, handoff >>

\* page.content(), open() or f.write() raises an exception e whose text stdout
\* cannot encode: print(f"Could not save debug info: {e}") raises UnicodeEncodeError
\* inside the except branch, and control goes to the handler of lines 202-215
DebugHandlerPrintRaises ==
    /\ pc = "debug_save"
    /\ \E e \in ExceptionTexts : ~Encodable(encoding, e)
    /\ Call("content")
    /\ exc' = UnicodeErrorText
    /\ pc' = "handler"
    /\ UNCHANGED << encoding, failed, dates, browser, page, reveal, extraction, returned,
                    word_data, handoff, console >>

\* for pattern in patterns: ... print(f"[OK] Found word: {word}") ... ;
\* date_str = tomorrow.strftime('%m/%d/%Y')
ExtractFound ==
    /\ pc = "extract"
    /\ word' = ExtractWord(page_text)
    /\ word' # None
    /\ Encodable(encoding, word')
    /\ date_str' = StrfTime(tomorrow)
    /\ pc' = "close_page"
    /\ UNCHANGED << encoding, exc, failed, dates, browser, page, reveal, page_text,
                    debug_saved, returned, word_data, handoff, console, log >>

\* word = match.group(1).upper(); print(f"[OK] Found word: {word}") raises
\* UnicodeEncodeError: control goes to the handler
ExtractFoundPrintRaises ==
    /\ pc = "extract"
    /\ word' = ExtractWord(page_text)
    /\ word' # None
    /\ ~Encodable(encoding, word')
    /\ exc' = UnicodeErrorText
    /\ failed' = "print_word"
    /\ pc' = "handler"
    /\ UNCHANGED << encoding, dates, browser, page, reveal, page_text, date_str,
                    debug_saved, returned, word_data, handoff, console, log >>

\* ClosePageOk without the call of page.close()
ClosePageOk_Skipped ==
    /\ pc = "close_page"
    /\ pc' = "close_browser"
    /\ UNCHANGED << encoding, exc, failed, dates, browser, page, reveal, extraction, returned, word_data,
                    handoff, console, log >>

\* await page.close()
ClosePageOk ==
    /\ pc = "close_page"
    /\ page' = "closed"
    /\ Call("page.close")
    /\ pc' = "close_browser"
    /\ UNCHANGED << encoding, exc, failed, dates, browser, reveal, extraction, returned, word_data, handoff,
                    console >>

ClosePageRaises == Raises("close_page", "page.close")

\* await browser.close()
CloseBrowserOk ==
    /\ pc = "close_browser"
    /\ browser' = "closed"
    /\ Call("browser.close")
    /\ pc' = "kill"
    /\ UNCHANGED << encoding, exc, failed, dates, page, reveal, extraction, returned, word_data, handoff, console >>

CloseBrowserRaises == Raises("close_browser", "browser.close")

\* os.system('taskkill ...' or 'pkill -f msedge')
KillBrowser ==
    /\ pc = "kill"
    /\ Call("kill")
    /\ pc' = "return"
    /\ UNCHANGED << encoding, exc, failed, dates, browser, page, reveal, extraction, returned, word_data,
                    handoff, console >>

\* return {'word': word, 'game_number': game_number, 'date': date_str}
ReturnRecord ==
    /\ pc = "return"
    /\ word_data' = [word |-> word, game_number |-> game_number, date |-> date_str]
    /\ returned' = "record"
    /\ Call("return")
    /\ pc' = "main_check"
    /\ UNCHANGED << encoding, exc, failed, dates, browser, page, reveal, extraction, handoff, console >>

\* except Exception as e: print(f"[ERROR] {e}") raises UnicodeEncodeError inside
\* the handler: fetch_nyt_wordle ends with the exception, and main with it
HandlerPrintRaises ==
    /\ pc = "handler"
    /\ ~Encodable(encoding, exc)
    /\ pc' = "crashed"
    /\ UNCHANGED << encoding, exc, failed, dates, browser, page, reveal, extraction, returned,
                    word_data, handoff, console, log >>

\* except Exception as e: print(f"[ERROR] {e}"); await browser.close();
\* os.system(kill); return None.
\* The kill command ends the msedge processes: when the attached browser is Edge
\* the open tab goes with it ("killed"), when it is Chrome the tab stays.
HandlerCloses ==
    /\ pc = "handler"
    /\ Encodable(encoding, exc)
    /\ browser' = "closed"
    /\ log' = log \o <<"browser.close", "kill">>
    /\ \E edge \in BOOLEAN : page' = IF edge /\ page = "open" THEN "killed" ELSE page
    /\ returned' = "None"
    /\ pc' = "main_check"
    /\ UNCHANGED << encoding, exc, failed, dates, reveal, extraction, word_data, handoff, console >>

\* ... browser.close() raises there: except: pass; return None
HandlerCloseRaises ==
    /\ pc = "handler"
    /\ Encodable(encoding, exc)
    /\ Call("browser.close")
    /\ returned' = "None"
    /\ pc' = "main_check"
    /\ UNCHANGED << encoding, exc, failed, dates, browser, page, reveal, extraction, word_data, handoff, console >>

(***************************************************************************)
(* main and add_word_to_database                                           *)
(***************************************************************************)
\* if not word_data: print("[FAILED] ..."); return
MainFailed ==
    /\ pc = "main_check" /\ returned = "None"
    /\ Say("[FAILED] Could not fetch Wordle word")
    /\ pc' = "done"
    /\ UNCHANGED << encoding, exc, failed, dates, browser, page, reveal, extraction, returned, word_data,
                    handoff, log >>

\* AddWordCommand with the game number handed over in place of the date
AddWordCommand_GameNumber(data) ==
    <<"node", "add-word.mjs", data.word, ToString(data.game_number)>>

\* the argument list of subprocess.run
AddWordCommand(data) == <<"node", "add-word.mjs", data.word, data.date>>

\* what add_word_to_database prints and returns for a completed process whose
\* output it could print
AddWordOutcome(p) ==
    IF p.returncode # 0
    THEN LET combined_output == p.stdout \o p.stderr
         IN  IF Contains(combined_output, AlreadyExists)
                  \/ Contains(combined_output, NoChangesMade)
             THEN [said |-> "[INFO] Word was not added - already exists in database",
                   ret |-> FALSE]
             ELSE [said |-> "[ERROR] Failed to add word to database", ret |-> FALSE]
    ELSE [said |-> "", ret |-> TRUE]

\* added = add_word_to_database(word_data), the command having run
AddWordRuns ==
    /\ pc = "main_check" /\ returned = "record"
    /\ \E rc \in ReturnCodes, out \in Stdouts, err \in Stderrs :
         /\ Encodable(encoding, out \o err)
         /\ proc' = [launched |-> TRUE, returncode |-> rc, stdout |-> out, stderr |-> err]
         /\ LET o == AddWordOutcome(proc')
            IN  /\ added' = o.ret
                /\ console' = IF o.said = "" THEN console ELSE Append(console, o.said)
    /\ cmds' = Append(cmds, AddWordCommand(word_data))
    /\ Call("subprocess.run")
    /\ pc' = "final"
    /\ UNCHANGED << encoding, exc, failed, dates, browser, page, reveal, extraction, returned, word_data >>

\* ... subprocess.run raises: except Exception as e: print(f"[ERROR] {e}"); return False
AddWordLaunchRaises ==
    /\ pc = "main_check" /\ returned = "record"
    /\ \E e \in ExceptionTexts : Encodable(encoding, e)
    /\ added' = FALSE
    /\ Say("[ERROR] exception")
    /\ cmds' = Append(cmds, AddWordCommand(word_data))
    /\ Call("subprocess.run")
    /\ pc' = "final"
    /\ UNCHANGED << encoding, exc, failed, dates, browser, page, reveal, extraction, returned, word_data, proc >>

\* ... subprocess.run raises an exception e whose text stdout cannot encode:
\* print(f"[ERROR] {e}") raises inside the except branch, and main ends with it
AddWordLaunchPrintRaises ==
    /\ pc = "main_check" /\ returned = "record"
    /\ \E e \in ExceptionTexts : ~Encodable(encoding, e)
    /\ cmds' = Append(cmds, AddWordCommand(word_data))
    /\ Call("subprocess.run")
    /\ pc' = "crashed"
    /\ UNCHANGED << encoding, exc, failed, dates, browser, page, reveal, extraction, returned,
                    word_data, added, proc, console >>

\* ... the command has run and print(result.stdout) or print(result.stderr) raises
\* UnicodeEncodeError: the same except branch, whatever the exit status
AddWordPrintRaises ==
    /\ pc = "main_check" /\ returned = "record"
    /\ \E rc \in ReturnCodes, out \in Stdouts, err \in Stderrs :
         /\ ~Encodable(encoding, out \o err)
         /\ proc' = [launched |-> TRUE, returncode |-> rc, stdout |-> out, stderr |-> err]
    /\ added' = FALSE
    /\ Say("[ERROR] exception")
    /\ cmds' = Append(cmds, AddWordCommand(word_data))
    /\ Call("subprocess.run")
    /\ pc' = "final"
    /\ UNCHANGED << encoding, exc, failed, dates, browser, page, reveal, extraction, returned,
                    word_data >>

\* the FINAL RESULT line printed for what add_word_to_database returned
FinalLine(added_) == IF added_ THEN "SUCCESS" ELSE "COMPLETE: already in the database"

\* print("FINAL RESULT"); if added: SUCCESS else: COMPLETE
FinalResult ==
    /\ pc = "final"
    /\ Say(FinalLine(added))
    /\ pc' = "done"
    /\ UNCHANGED << encoding, exc, failed, dates, browser, page, reveal, extraction, returned, word_data,
                    handoff, log >>

Next ==
    \/ ReadTomorrow \/ ReadToday
    \/ ConnectOk \/ ConnectFails
    \/ ContextFound \/ NoContext \/ NoContextCloseOk \/ NoContextCloseRaises
    \/ NewPage \/ NewPageRaises
    \/ GotoOk \/ GotoRaises
    \/ WaitLoadOk \/ WaitLoadRaises
    \/ SelectorRaises \/ SelectorNone \/ SelectorFound
    \/ ClickOk \/ ClickRaises
    \/ RevealWaitOk \/ RevealWaitRaises
    \/ SelectorsExhausted
    \/ TextContentOk \/ TextContentRaises
    \/ ExtractNoWord \/ DebugSaved \/ DebugSavedPrintRaises
    \/ DebugContentRaises \/ DebugWriteRaises \/ DebugHandlerPrintRaises
    \/ ExtractFound \/ ExtractFoundPrintRaises
    \/ ClosePageOk \/ ClosePageRaises
    \/ CloseBrowserOk \/ CloseBrowserRaises
    \/ KillBrowser \/ ReturnRecord
    \/ HandlerPrintRaises \/ HandlerCloses \/ HandlerCloseRaises
    \/ MainFailed
    \/ AddWordRuns \/ AddWordPrintRaises \/ AddWordLaunchRaises \/ AddWordLaunchPrintRaises
    \/ FinalResult

Spec == Init /\ [][Next]_vars

(***************************************************************************)
(* The extraction alone, on page texts put together from phrases.          *)
(***************************************************************************)
\* How many phrases a page text is put together from, at most.
MaxPhrases == 2

Phrases == {
       \* "Today's word is FRUIT. "
       <<"T","o","d","a","y","'","s"," ","w","o","r","d"," ","i","s"," ","F",
         "R","U","I","T","."," ">>,
       \* 'TODAY WORD:\tcrane '
       <<"T","O","D","A","Y"," ","W","O","R","D",":","\t","c","r","a","n","e",
         " ">>,
       \* 'answer to Wordle 12 is slate '
       <<"a","n","s","w","e","r"," ","t","o"," ","W","o","r","d","l","e"," ",
         "1","2"," ","i","s"," ","s","l","a","t","e"," ">>,
       \* 'answer is ABCDE '
       <<"a","n","s","w","e","r"," ","i","s"," ","A","B","C","D","E"," ">>,
       \* 'Solution is\nmoist '
       <<"S","o","l","u","t","i","o","n"," ","i","s","\n","m","o","i","s","t",
         " ">>,
       \* 'Wordle 7 answer: quick '
       <<"W","o","r","d","l","e"," ","7"," ","a","n","s","w","e","r",":"," ",
         "q","u","i","c","k"," ">>,
       \* 'crane is the answer '
       <<"c","r","a","n","e"," ","i","s"," ","t","h","e"," ","a","n","s","w",
         "e","r"," ">>,
       \* 'The word is: <U+212A>iosk '
       <<"T","h","e"," ","w","o","r","d"," ","i","s",":"," ",KelvinSign,"i",
         "o","s","k"," ">>,
       \* 'answer is '
       <<"a","n","s","w","e","r"," ","i","s"," ">>,
       \* 'x'
       <<"x">>,
       \* 'the '
       <<"t","h","e"," ">> }

RECURSIVE TextsOf(_)
TextsOf(n) == IF n = 0 THEN {<<>>}
              ELSE TextsOf(n - 1) \cup {t \o ph : t \in TextsOf(n - 1), ph \in Phrases}

ExtractTexts == TextsOf(MaxPhrases)

\* The run up to the extraction: connected, the page open and loaded, no selector
\* clicked, and text_content('body') having returned one of ExtractTexts.
InitExtract ==
    /\ encoding \in Encodings /\ exc = <<>>
    /\ pc = "extract"
    /\ clock \in {DaysFromCivil(2021, 6, 19) * TicksPerDay}
    /\ tomorrow = clock + OneDay
    /\ today = clock
    /\ game_number = DeltaDays(tomorrow, WORDLE_START_DATE)
    /\ url = ReviewUrl(today, game_number)
    /\ browser = "connected" /\ page = "open"
    /\ sel = Len(reveal_selectors) + 1 /\ clicked = FALSE
    /\ tried = reveal_selectors /\ clicks = 0
    /\ page_text \in ExtractTexts
    /\ word = None /\ date_str = "" /\ debug_saved = FALSE
    /\ returned = "pending" /\ word_data = NoData
    /\ added = "pending" /\ proc = NoProc /\ cmds = <<>>
    /\ failed = ""
    /\ console = <<>>
    /\ log = <<"connect", "new_page", "goto", "text_content">>

NextExtract == ExtractNoWord \/ ExtractFound \/ ExtractFoundPrintRaises

SpecExtract == InitExtract /\ [][NextExtract]_vars

(***************************************************************************)
(* Properties                                                              *)
(***************************************************************************)
Has(seq, e) == \E i \in DOMAIN seq : seq[i] = e

Count(seq, e) == Cardinality({i \in DOMAIN seq : seq[i] = e})

\* the place of the first e in seq (0 when absent)
Pos(seq, e) == IF Has(seq, e) THEN CHOOSE i \in DOMAIN seq : seq[i] = e /\ \A j \in 1 .. i - 1 : seq[j] # e
               ELSE 0

Finished == pc = "done"

NothingAfterNavigate ==
    /\ tried = <<>> /\ clicks = 0 /\ ~clicked
    /\ ~Has(log, "text_content") /\ word = None
    /\ cmds = <<>> /\ ~Has(log, "subprocess.run")

\* C1: a failure of the connect step, of the navigation step or of the extraction
\* step (no pattern matches) short-circuits the rest of connect -> navigate ->
\* reveal -> extract -> hand off: after a connect failure no page is opened and
\* nothing later happens, after a navigation failure no reveal, extraction or
\* external command happens, after an extraction failure the external command is
\* not invoked, and in all three cases fetch_nyt_wordle returns no record.
C1_FailureShortCircuits ==
    /\ failed = "connect" =>
         /\ page = "none" /\ ~Has(log, "new_page") /\ ~Has(log, "goto")
         /\ NothingAfterNavigate
    /\ failed = "goto" => NothingAfterNavigate
    /\ failed = "extract" => cmds = <<>> /\ ~Has(log, "subprocess.run")
    /\ failed \in {"connect", "goto", "extract"} =>
         /\ returned # "record"
         /\ Finished => returned = "None"

\* A run whose reveal step clicked, whose extraction then failed, and which ended.
C1_Witness ==
    /\ Finished /\ failed = "extract" /\ clicked /\ returned = "None"
    /\ Has(console, "[FAILED] Could not fetch Wordle word")

DuplicateReported(p) ==
    /\ p.launched /\ p.returncode # 0
    /\ \/ Contains(p.stdout \o p.stderr, AlreadyExists)
       \/ Contains(p.stdout \o p.stderr, NoChangesMade)

\* C2: the final result reports the word as 'already in the database, no changes
\* made' only in runs where the external command was run and its exit status and
\* output indicated a duplicate; a command that failed for another reason, or an
\* exception while launching it, is never reported as a duplicate.
C2_DuplicateOnlyWhenDuplicate ==
    Has(console, FinalLine(FALSE)) => DuplicateReported(proc)

\* C3 as claimed: every page fetch_nyt_wordle opened is closed (by page.close(), or
\* with the killed browser) by the time it returns, on every exit path.
C3_PageClosedOnEveryExit ==
    (returned # "pending" /\ Has(log, "new_page")) => page \in {"closed", "killed"}

\* C3 as amended: whenever fetch_nyt_wordle returns a record, the page it opened
\* has been closed by page.close().
C3_PageClosedWhenRecord ==
    returned = "record" => (Has(log, "new_page") /\ page = "closed")

C3_Witness == returned = "record" /\ page = "closed" /\ Has(log, "page.close")

\* C4: whenever fetch_nyt_wordle returns a record, the record's word is exactly
\* five characters long and consists only of the uppercase letters A-Z.
C4_WordFiveUpperAZ ==
    returned = "record" =>
        /\ Len(word_data.word) = 5
        /\ \A i \in DOMAIN word_data.word : word_data.word[i] \in AsciiUpper

\* C5: the external add-word command is invoked at most once, only after
\* fetch_nyt_wordle has returned a record, and its two arguments are that record's
\* word and date (tomorrow's date as MM/DD/YYYY), unchanged since extraction.
C5_HandOffOnceWithRecord ==
    /\ Len(cmds) <= 1
    /\ Count(log, "subprocess.run") = Len(cmds)
    /\ cmds # <<>> =>
         /\ returned = "record"
         /\ Pos(log, "return") > 0 /\ Pos(log, "return") < Pos(log, "subprocess.run")
         /\ Len(cmds[1]) = 4
         /\ cmds[1][3] = word_data.word /\ cmds[1][4] = word_data.date
         /\ word_data.word = word /\ word # None
         /\ word_data.date = date_str
         /\ date_str = StrfTime(tomorrow) /\ Len(date_str) = 10

C5_Witness == Finished /\ Len(cmds) = 1 /\ Has(log, "subprocess.run")

\* C6: add_word_to_database returns True exactly when the command was launched
\* and exited with status 0, whatever its output says; False on a non-zero
\* status and on an exception; so main prints SUCCESS iff the status was 0.
C6_TrueIffExitZero ==
    /\ pc \in {"final", "done"} /\ returned = "record" =>
         (added = TRUE <=> (proc.launched /\ proc.returncode = 0))
    /\ Finished /\ returned = "record" =>
         (Has(console, FinalLine(TRUE)) <=> (proc.launched /\ proc.returncode = 0))

IsPrefix(a, b) == Len(a) <= Len(b) /\ SubSeq(b, 1, Len(a)) = a

\* C7: the six reveal selectors are tried in their listed order, each at most
\* once, and the loop stops at the first selector whose element is found and
\* clicked without error: once a click has succeeded no later selector is tried
\* and no second click succeeds.
C7_StopsAtFirstClick ==
    [][ /\ IsPrefix(tried', reveal_selectors)
        /\ clicks >= 1 => (tried' = tried /\ clicks' = clicks) ]_vars

\* C9: on the successful path the page is closed, then the connection is closed,
\* then the kill command is issued, then the record is returned, and only then
\* is the external command invoked; the kill command is never issued in a run
\* whose connect step failed, that found no context, or whose extraction failed.
C9_SuccessOrder ==
    /\ returned = "record" =>
         /\ \A e \in {"page.close", "browser.close", "kill", "return"} : Count(log, e) = 1
         /\ Pos(log, "page.close") < Pos(log, "browser.close")
         /\ Pos(log, "browser.close") < Pos(log, "kill")
         /\ Pos(log, "kill") < Pos(log, "return")
    /\ Has(log, "subprocess.run") =>
         /\ returned = "record"
         /\ Pos(log, "return") < Pos(log, "subprocess.run")
    /\ failed \in {"connect", "no_context", "extract"} => ~Has(log, "kill")

\* What a pattern can match, told without the matcher's search order: the
\* places [pos, gs] the items k.. of pat can lead to from the places S.
RECURSIVE Ends(_, _, _, _)
Ends(pat, text, k, S) ==
    IF k > Len(pat) THEN S
    ELSE LET it == pat[k]
             step(x) == IF it.bnd
                        THEN IF IsWordAt(text, x.pos - 1) # IsWordAt(text, x.pos)
                             THEN {x} ELSE {}
                        ELSE {[pos |-> x.pos + c, gs |-> IF it.grp THEN x.pos ELSE x.gs] :
                                c \in {n \in it.min .. Len(text) :
                                         /\ it.unb \/ n <= it.max
                                         /\ \A j \in 0 .. n - 1 :
                                              /\ x.pos + j <= Len(text)
                                              /\ text[x.pos + j] \in it.cls}}
         IN  Ends(pat, text, k + 1, UNION {step(x) : x \in S})

\* where group 1 can start in a match of pattern i that starts at s
GroupStarts(i, text, s) == {x.gs : x \in Ends(patterns[i], text, 1, {[pos |-> s, gs |-> 0]})}

MatchStarts(i, text) == {s \in 1 .. Len(text) : GroupStarts(i, text, s) # {}}

Least(S) == CHOOSE m \in S : \A o \in S : m <= o

\* C8: the extracted word is the upper-cased capture of the first pattern, in
\* the listed order, that matches anywhere in the page text, taken at that
\* pattern's leftmost match, even when a later pattern matches further left;
\* the word is None exactly when none of the eight patterns matches.
C8_FirstListedPatternWins ==
    pc # "extract" =>
        LET hit == {i \in DOMAIN patterns : MatchStarts(i, page_text) # {}}
        IN  /\ word = None <=> hit = {}
            /\ hit # {} =>
                 LET i  == Least(hit)
                     gs == GroupStarts(i, page_text, Least(MatchStarts(i, page_text)))
                 IN  /\ gs # {}
                     /\ \A g \in gs : word = StrUpper(SubSeq(page_text, g, g + 4))

\* Pattern 7 matches further left than pattern 4, and pattern 4 gives the word.
C8_Witness ==
    /\ pc = "close_page"
    /\ MatchStarts(4, page_text) # {} /\ MatchStarts(7, page_text) # {}
    /\ \A i \in 1 .. 3 : MatchStarts(i, page_text) = {}
    /\ Least(MatchStarts(7, page_text)) < Least(MatchStarts(4, page_text))
    /\ word = <<"A","B","C","D","E">>

\* the days a run of the model can name
ModelDays == {d + k : d \in StartDays, k \in 0 .. 3}

\* C10: the date in the review URL, the game number and the record's date are
\* consistent however the clock moves between the two clock reads: the URL's date
\* is one day before the record's date, and the game number is the number of
\* days from 2021-06-19 to the record's date.
C10_DatesConsistent ==
    returned = "record" =>
        \E d \in ModelDays :
            /\ word_data.date = StrfTime(d * TicksPerDay)
            /\ url = ReviewUrl((d - 1) * TicksPerDay, word_data.game_number)
            /\ word_data.game_number = d - DaysFromCivil(2021, 6, 19)

=============================================================================
